---- MODULE Spec2Model ----
(***************************************************************************)
(* Model of the LINE OA chatbot core: rule parsing and intent matching     *)
(* (app/intent.py), template rendering (app/template_engine.py), the reply *)
(* orchestrator (app/main.py) and the sheet cache (sheets.py).             *)
(*                                                                         *)
(* Python strings are modelled as sequences of one-character strings, so   *)
(* that strip/lower/split/startswith/substring are computed, not assumed.  *)
(***************************************************************************)
EXTENDS Integers, Sequences, FiniteSets, TLC

VARIABLES
    pc,            \* "call" before the operation ran, "done" after it
    text,          \* the inbound message text
    df_before,     \* table "Intent Instruction - before sale"
    df_after,      \* table "Intent Instruction - after sale"
    intent,        \* what choose_intent produced
    rule_cell,     \* one detection-rule cell
    matched,       \* whether the row with that rule became a candidate
    products,      \* the product list of _parse_products
    product,       \* what _pick_product returned
    template,      \* the template string given to render
    ctx,           \* the context given to render
    rendered,      \* what render produced (render_reply: the pre-hook reply)
    tables,        \* the snapshot given to render_reply
    today,         \* datetime.utcnow().date(), as a day number
    hook,          \* the post-processing hook and how its remote call ends
    kv,            \* the configuration key/values of render_reply
    promo,         \* what _active_promo returned
    reply,         \* what render_reply returned
    now,           \* time.time()
    last_load,     \* SheetsDB.last_load
    cache,         \* SheetsDB.cache: a reference to a dict of the heap
    heap,          \* the dicts built by load: sheet name -> the load that read it
    loads,         \* reloads begun so far
    started,       \* accesses begun so far
    hs             \* the running handlers: position and locals of each

IntentVars == <<df_before, df_after, intent>>
RuleVars == <<rule_cell, matched>>
PickVars == <<products, product>>
RenderVars == <<template, ctx, rendered>>
ReplyVars == <<tables, today, hook, kv, promo, reply>>
CacheVars == <<now, last_load, cache, heap, loads, started, hs>>

vars == <<pc, text, IntentVars, RuleVars, PickVars, RenderVars, ReplyVars, CacheVars>>

(***************************************************************************)
(* Bounds of the model                                                     *)
(***************************************************************************)
MaxRows == 3        \* rows over both intent tables together
MaxTail == 3        \* characters of a rule cell after its prefix
MaxText == 2        \* characters of the message text matched against one rule
MaxProducts == 2    \* products in the product list
MaxPieces == 5      \* pieces a template is put together from
MaxReplyRows == 1   \* rows over both intent tables in a render_reply call
MaxRequests == 2    \* accesses to the data provider in one behaviour
MaxTicks == 2       \* steps of the clock in one behaviour
TickSecs == 150     \* seconds in one step of the clock

(***************************************************************************)
(* Python string primitives                                                *)
(***************************************************************************)
\* str.isspace of one character (the model's alphabet has one blank)
IsSpace(c) == c = " "

\* str.lower of one character
LowerChar(c) ==
    CASE c = "A" -> "a"
      [] c = "B" -> "b"
      [] c = "C" -> "c"
      [] c = "D" -> "d"
      [] c = "K" -> "k"
      [] OTHER -> c

Lower(s) == [i \in 1..Len(s) |-> LowerChar(s[i])]

RECURSIVE LStrip(_)
LStrip(s) == IF s # <<>> /\ IsSpace(Head(s)) THEN LStrip(Tail(s)) ELSE s

RECURSIVE RStrip(_)
RStrip(s) ==
    IF s # <<>> /\ IsSpace(s[Len(s)]) THEN RStrip(SubSeq(s, 1, Len(s) - 1)) ELSE s

Strip(s) == RStrip(LStrip(s))

StartsWith(s, p) == Len(s) >= Len(p) /\ SubSeq(s, 1, Len(p)) = p

\* Python's `sub in t`
Contains(t, sub) ==
    \E i \in 0..(Len(t) - Len(sub)) : SubSeq(t, i + 1, i + Len(sub)) = sub

\* index of the first c in s, 0 when there is none
IndexOf(s, c) ==
    IF \E i \in 1..Len(s) : s[i] = c
    THEN CHOOSE i \in 1..Len(s) : s[i] = c /\ \A j \in 1..(i - 1) : s[j] # c
    ELSE 0

\* s.split(c): always at least one part
RECURSIVE Split(_, _)
Split(s, c) ==
    LET i == IndexOf(s, c)
    IN  IF i = 0 THEN <<s>>
        ELSE <<SubSeq(s, 1, i - 1)>> \o Split(SubSeq(s, i + 1, Len(s)), c)

\* s.split(c, 1)[1]: everything after the first c
AfterFirst(s, c) == SubSeq(s, IndexOf(s, c) + 1, Len(s))

\* s.split(): the maximal runs of non-blank characters
RECURSIVE SplitWs(_)
SplitWs(s) ==
    LET t == LStrip(s)
        n == IF \E i \in 1..Len(t) : IsSpace(t[i])
             THEN (CHOOSE i \in 1..Len(t) :
                      IsSpace(t[i]) /\ \A j \in 1..(i - 1) : ~IsSpace(t[j])) - 1
             ELSE Len(t)
    IN  IF t = <<>> THEN <<>>
        ELSE <<SubSeq(t, 1, n)>> \o SplitWs(SubSeq(t, n + 1, Len(t)))

Digits == {"0", "1", "2", "3", "4", "5", "6", "7", "8", "9"}

DigitVal(c) ==
    CASE c = "0" -> 0 [] c = "1" -> 1 [] c = "2" -> 2 [] c = "3" -> 3
      [] c = "4" -> 4 [] c = "5" -> 5 [] c = "6" -> 6 [] c = "7" -> 7
      [] c = "8" -> 8 [] c = "9" -> 9 [] OTHER -> 0

RECURSIVE DigitsVal(_)
DigitsVal(s) ==
    IF s = <<>> THEN 0
    ELSE 10 * DigitsVal(SubSeq(s, 1, Len(s) - 1)) + DigitVal(s[Len(s)])

\* Python's int(str): blanks stripped, an optional sign, then digits with
\* single underscores allowed between digits; anything else is a ValueError.
ParseInt(s) ==
    LET t    == Strip(s)
        sgn  == t # <<>> /\ Head(t) \in {"+", "-"}
        body == IF sgn THEN Tail(t) ELSE t
        good == /\ body # <<>>
                /\ \A i \in 1..Len(body) : body[i] \in Digits \cup {"_"}
                /\ body[1] # "_" /\ body[Len(body)] # "_"
                /\ \A i \in 1..(Len(body) - 1) : ~(body[i] = "_" /\ body[i + 1] = "_")
        ds   == SelectSeq(body, LAMBDA c : c # "_")
    IN  IF good
        THEN [ok |-> TRUE, val |-> IF sgn /\ Head(t) = "-" THEN 0 - DigitsVal(ds) ELSE DigitsVal(ds)]
        ELSE [ok |-> FALSE, val |-> 0]

(***************************************************************************)
(* Rows and tables                                                         *)
(***************************************************************************)
\* a column the table does not have
Missing == <<"<missing>">>

\* r.get(col, default)
Get(r, col, default) == IF r[col] = Missing THEN default ELSE r[col]

\* the row {} of the "fallback" result
EmptyRow == [rule |-> Missing, prio |-> Missing, tmpl |-> Missing]

\* `df is None or df.empty`
NoRows(df) == df.isNone \/ df.rows = <<>>

(***************************************************************************)
(* app/intent.py                                                           *)
(***************************************************************************)
KeywordPrefix == <<"k", "e", "y", "w", "o", "r", "d", "_", "a", "n", "y", ":">>
AlwaysPrefix  == <<"a", "l", "w", "a", "y", "s">>

_norm(s) == Lower(Strip(s))

\* parse_detection_rule without the cut at "|"
parse_detection_rule_KeepsSuffix(rule) ==
    LET core  == Strip(rule)
        raw   == Split(AfterFirst(core, ":"), ",")
        kept  == SelectSeq(raw, LAMBDA t : Strip(t) # <<>>)
        toks  == [i \in 1..Len(kept) |-> Lower(Strip(kept[i]))]
    IN  IF StartsWith(core, KeywordPrefix)
        THEN [type |-> "keyword_any", tokens |-> toks]
        ELSE IF StartsWith(core, AlwaysPrefix)
        THEN [type |-> "always", tokens |-> <<>>]
        ELSE [type |-> "unknown", tokens |-> <<>>]

parse_detection_rule(rule) ==
    LET r     == Strip(rule)
        parts == Split(r, "|")
        core  == parts[1]
        raw   == Split(AfterFirst(core, ":"), ",")
        kept  == SelectSeq(raw, LAMBDA t : Strip(t) # <<>>)
        toks  == [i \in 1..Len(kept) |-> Lower(Strip(kept[i]))]
    IN  IF StartsWith(core, KeywordPrefix)
        THEN [type |-> "keyword_any", tokens |-> toks]
        ELSE IF StartsWith(core, AlwaysPrefix)
        THEN [type |-> "always", tokens |-> <<>>]
        ELSE [type |-> "unknown", tokens |-> <<>>]

match_keyword_any(t, tokens) ==
    LET n == _norm(t) IN \E i \in 1..Len(tokens) : Contains(n, tokens[i])

\* lines 40-46: whether the row is a candidate
RowMatches(t, r) ==
    LET parsed == parse_detection_rule(Get(r, "rule", <<>>))
    IN  CASE parsed.type = "keyword_any" -> match_keyword_any(t, parsed.tokens)
          [] parsed.type = "always" -> TRUE
          [] OTHER -> FALSE

\* line 39: int(str(r.get(col, "999")) or 999)
RowPriority(r) ==
    LET s == Get(r, "prio", <<"9", "9", "9">>)
    IN  IF s = <<>> THEN [ok |-> TRUE, val |-> 999] ELSE ParseInt(s)

\* lines 38-48 over one table: acc is [err, cands]; a ValueError of line 39
\* ends the scan at the row that raised it
RECURSIVE ScanRows(_, _, _, _)
ScanRows(t, which, rows, acc) ==
    IF acc.err \/ rows = <<>> THEN acc
    ELSE LET r == Head(rows)
             p == RowPriority(r)
         IN  IF ~p.ok THEN [acc EXCEPT !.err = TRUE]
             ELSE ScanRows(t, which, Tail(rows),
                    IF RowMatches(t, r)
                    THEN [acc EXCEPT !.cands = Append(@, [prio |-> p.val, which |-> which, row |-> r])]
                    ELSE acc)

\* lines 34-48
FirstPass(t, b, a) ==
    LET a0 == [err |-> FALSE, cands |-> <<>>]
        a1 == IF NoRows(b) THEN a0 ELSE ScanRows(t, "before", b.rows, a0)
    IN  IF NoRows(a) THEN a1 ELSE ScanRows(t, "after", a.rows, a1)

\* list.sort(key=...) is stable: insert each element after the elements whose
\* key is not larger
RECURSIVE InsertByPrio(_, _)
InsertByPrio(sorted, c) ==
    IF sorted = <<>> THEN <<c>>
    ELSE IF Head(sorted).prio <= c.prio
         THEN <<Head(sorted)>> \o InsertByPrio(Tail(sorted), c)
         ELSE <<c>> \o sorted

RECURSIVE SortByPrio(_)
SortByPrio(cands) ==
    IF cands = <<>> THEN <<>>
    ELSE InsertByPrio(SortByPrio(SubSeq(cands, 1, Len(cands) - 1)), cands[Len(cands)])

\* lines 57-60 over one table
RECURSIVE RescanRows(_, _)
RescanRows(which, rows) ==
    IF rows = <<>> THEN [found |-> FALSE, which |-> "fallback", row |-> EmptyRow]
    ELSE IF StartsWith(Get(Head(rows), "rule", <<>>), AlwaysPrefix)
         THEN [found |-> TRUE, which |-> which, row |-> Head(rows)]
         ELSE RescanRows(which, Tail(rows))

\* lines 54-61
Rescan(b, a) ==
    LET rb == IF NoRows(b) THEN RescanRows("before", <<>>) ELSE RescanRows("before", b.rows)
        ra == IF NoRows(a) THEN RescanRows("after", <<>>) ELSE RescanRows("after", a.rows)
    IN  IF rb.found THEN rb ELSE ra

ErrorResult == [err |-> TRUE, which |-> "error", row |-> EmptyRow]

\* lines 49-52
PickFirst(cands) ==
    LET s == SortByPrio(cands) IN [err |-> FALSE, which |-> s[1].which, row |-> s[1].row]

choose_intent(t, b, a) ==
    LET fp == FirstPass(t, b, a)
        rs == Rescan(b, a)
    IN  IF fp.err THEN ErrorResult
        ELSE IF fp.cands # <<>> THEN PickFirst(fp.cands)
        ELSE [err |-> FALSE, which |-> rs.which, row |-> rs.row]

(***************************************************************************)
(* app/template_engine.py                                                  *)
(***************************************************************************)
\* Context values: a string, None, or a dict (insertion-ordered key/value
\* pairs with distinct keys)
VStr(s) == [k |-> "str", s |-> s, m |-> <<>>]
VNone == [k |-> "none", s |-> <<>>, m |-> <<>>]
VMap(m) == [k |-> "map", s |-> <<>>, m |-> m]

\* `part in cur` for a dict
HasKey(m, key) == \E i \in 1..Len(m) : m[i].key = key

\* cur[part]
Lookup(m, key) == m[CHOOSE i \in 1..Len(m) : m[i].key = key].val

\* ", ".join(parts)
RECURSIVE JoinComma(_)
JoinComma(parts) ==
    IF parts = <<>> THEN <<>>
    ELSE IF Len(parts) = 1 THEN parts[1]
    ELSE parts[1] \o <<",", " ">> \o JoinComma(Tail(parts))

\* repr() of a context value
RECURSIVE PyRepr(_)
PyRepr(v) ==
    CASE v.k = "str" -> <<"'">> \o v.s \o <<"'">>
      [] v.k = "none" -> <<"N", "o", "n", "e">>
      [] OTHER ->
            <<"{">> \o
            JoinComma([i \in 1..Len(v.m) |->
                <<"'">> \o v.m[i].key \o <<"'", ":", " ">> \o PyRepr(v.m[i].val)])
            \o <<"}">>

\* str() of a context value
PyStr(v) == IF v.k = "str" THEN v.s ELSE PyRepr(v)

\* the loop without `isinstance(cur, dict)`: `part in cur` is a substring test
\* on a string, whose cur[part] is a TypeError, and a TypeError on None
RECURSIVE WalkPath_NoDictCheck(_, _)
WalkPath_NoDictCheck(cur, parts) ==
    IF parts = <<>> THEN [err |-> FALSE, val |-> cur]
    ELSE CASE cur.k = "map" ->
                IF HasKey(cur.m, Head(parts))
                THEN WalkPath_NoDictCheck(Lookup(cur.m, Head(parts)), Tail(parts))
                ELSE [err |-> FALSE, val |-> VStr(<<>>)]
           [] cur.k = "str" ->
                IF Contains(cur.s, Head(parts))
                THEN [err |-> TRUE, val |-> VStr(<<>>)]
                ELSE [err |-> FALSE, val |-> VStr(<<>>)]
           [] OTHER -> [err |-> TRUE, val |-> VStr(<<>>)]

\* lines 13-17: the loop over path.split(".")
RECURSIVE WalkPath(_, _)
WalkPath(cur, parts) ==
    IF parts = <<>> THEN [err |-> FALSE, val |-> cur]
    ELSE IF cur.k = "map" /\ HasKey(cur.m, Head(parts))
         THEN WalkPath(Lookup(cur.m, Head(parts)), Tail(parts))
         ELSE [err |-> FALSE, val |-> VStr(<<>>)]

_get_by_path(data, path) ==
    LET w == WalkPath(data, Split(path, "."))
    IN  IF w.err THEN w
        ELSE [err |-> FALSE, val |-> IF w.val.k = "none" THEN VStr(<<>>) ELSE w.val]

\* _PATTERN = {{\s*(.*?)\s*}}: s[i], s[i+1] open a placeholder that the first
\* "}}" at or after i+2 closes
OpensAt(s, i) ==
    /\ i + 3 <= Len(s) /\ s[i] = "{" /\ s[i + 1] = "{"
    /\ \E j \in (i + 2)..(Len(s) - 1) : s[j] = "}" /\ s[j + 1] = "}"

CloseOf(s, i) ==
    CHOOSE j \in (i + 2)..(Len(s) - 1) :
        /\ s[j] = "}" /\ s[j + 1] = "}"
        /\ \A h \in (i + 2)..(j - 1) : ~(s[h] = "}" /\ s[h + 1] = "}")

\* lines 21-24: repl(m)
repl(group, context) ==
    LET r == _get_by_path(context, Strip(group))
    IN  [err |-> r.err, out |-> PyStr(r.val)]

\* _PATTERN.sub(repl, s): leftmost matches, left to right, not overlapping
RECURSIVE PatternSub(_, _)
PatternSub(s, context) ==
    IF \A i \in 1..Len(s) : ~OpensAt(s, i) THEN [err |-> FALSE, out |-> s]
    ELSE LET i    == CHOOSE x \in 1..Len(s) :
                        OpensAt(s, x) /\ \A y \in 1..(x - 1) : ~OpensAt(s, y)
             j    == CloseOf(s, i)
             r    == repl(Strip(SubSeq(s, i + 2, j - 1)), context)
             rest == PatternSub(SubSeq(s, j + 2, Len(s)), context)
         IN  IF r.err \/ rest.err THEN [err |-> TRUE, out |-> <<>>]
             ELSE [err |-> FALSE, out |-> SubSeq(s, 1, i - 1) \o r.out \o rest.out]

render(tpl, context) == PatternSub(tpl, context)

(***************************************************************************)
(* app/main.py: _pick_product                                              *)
(***************************************************************************)
\* the record {} returned for an empty list
EmptyProduct == [sku |-> Missing, name |-> Missing]

\* lines 129-132: the first product whose SKU is in the text
RECURSIVE FirstBySku(_, _)
FirstBySku(t, ps) ==
    IF ps = <<>> THEN [found |-> FALSE, p |-> EmptyProduct]
    ELSE LET sku == Lower(Get(Head(ps), "sku", <<>>))
         IN  IF sku # <<>> /\ Contains(t, sku)
             THEN [found |-> TRUE, p |-> Head(ps)]
             ELSE FirstBySku(t, Tail(ps))

\* lines 134-137: the first product with a token of its name in the text
RECURSIVE FirstByName(_, _)
FirstByName(t, ps) ==
    IF ps = <<>> THEN [found |-> FALSE, p |-> EmptyProduct]
    ELSE LET name == Lower(Get(Head(ps), "name", <<>>))
             toks == SplitWs(name)
         IN  IF name # <<>> /\ \E i \in 1..Len(toks) : Contains(t, toks[i])
             THEN [found |-> TRUE, p |-> Head(ps)]
             ELSE FirstByName(t, Tail(ps))

\* _pick_product with the name loop before the SKU loop
_pick_product_NameFirst(msg, ps) ==
    LET t == Lower(msg)
    IN  IF ps = <<>> THEN EmptyProduct
        ELSE IF FirstByName(t, ps).found THEN FirstByName(t, ps).p
        ELSE IF FirstBySku(t, ps).found THEN FirstBySku(t, ps).p
        ELSE ps[1]

_pick_product(msg, ps) ==
    LET t == Lower(msg)
    IN  IF ps = <<>> THEN EmptyProduct
        ELSE IF FirstBySku(t, ps).found THEN FirstBySku(t, ps).p
        ELSE IF FirstByName(t, ps).found THEN FirstByName(t, ps).p
        ELSE ps[1]

(***************************************************************************)
(* app/main.py: the reply orchestrator                                     *)
(*                                                                         *)
(* The Thai column names and keys of the sheets are written with ASCII     *)
(* stand-ins: "key"/"val" for the markers of the key and value columns,    *)
(* "fb" for the fallback key, "per" for the persona key, "sku", "name",    *)
(* "props (JSON)" and "props" for the product columns, "d<n>" for the ISO  *)
(* date of day n.                                                          *)
(***************************************************************************)
KeyMarker == <<"k", "e", "y">>
ValMarker == <<"v", "a", "l">>
FallbackKey == <<"f", "b">>
PersonaKey == <<"p", "e", "r">>
DefaultPersona == <<"k", "i", "n", "d">>
DefaultApology == <<"s", "o", "r", "r", "y">>

Pair(key, val) == [key |-> key, val |-> val]

\* d[key] = val on an insertion-ordered dict
DictSet(m, key, val) ==
    IF HasKey(m, key)
    THEN [i \in 1..Len(m) |-> IF m[i].key = key THEN Pair(key, val) ELSE m[i]]
    ELSE Append(m, Pair(key, val))

\* d.get(key, default)
DictGet(m, key, default) == IF HasKey(m, key) THEN Lookup(m, key) ELSE default

\* next((c for c in df.columns if marker in c), None): its index, 0 for None
FirstColumnWith(cols, marker) ==
    IF \E i \in 1..Len(cols) : Contains(cols[i], marker)
    THEN CHOOSE i \in 1..Len(cols) :
            Contains(cols[i], marker) /\ \A j \in 1..(i - 1) : ~Contains(cols[j], marker)
    ELSE 0

\* lines 69-73: the rows of the configuration table, in order
RECURSIVE ConfigRows(_, _, _, _)
ConfigRows(rows, kc, vc, acc) ==
    IF rows = <<>> THEN acc
    ELSE LET k == Strip(Head(rows)[kc])
             v == Strip(Head(rows)[vc])
         IN  ConfigRows(Tail(rows), kc, vc,
                        IF k # <<>> THEN DictSet(acc, k, VStr(v)) ELSE acc)

\* a configuration table is [isNone, cols, rows], each row a tuple of cells
_kv_from_config(df) ==
    IF NoRows(df) THEN <<>>
    ELSE LET kc == FirstColumnWith(df.cols, KeyMarker)
             vc == FirstColumnWith(df.cols, ValMarker)
         IN  IF kc = 0 \/ vc = 0 THEN <<>> ELSE ConfigRows(df.rows, kc, vc, <<>>)

\* json.loads on the cells of the model: a one-member object, the empty
\* object, and text that is no JSON (a ValueError)
JsonObject == <<"{", "\"", "w", "\"", ":", "\"", "5", "\"", "}">>
JsonBroken == <<"{">>
json_loads(cell) ==
    CASE cell = JsonObject -> [ok |-> TRUE, val |-> VMap(<<Pair(<<"w">>, VStr(<<"5">>))>>)]
      [] cell = <<"{", "}">> -> [ok |-> TRUE, val |-> VMap(<<>>)]
      [] OTHER -> [ok |-> FALSE, val |-> VMap(<<>>)]

\* lines 81-94: one product row as a dict, "props" added when the row has a
\* JSON column
ParseProduct(r) ==
    LET cell   == IF r.json = <<>> THEN <<"{", "}">> ELSE r.json
        parsed == json_loads(cell)
        base   == (IF r.sku = Missing THEN <<>> ELSE <<Pair(<<"s", "k", "u">>, VStr(r.sku))>>)
                  \o (IF r.name = Missing THEN <<>> ELSE <<Pair(<<"n", "a", "m", "e">>, VStr(r.name))>>)
                  \o (IF r.json = Missing THEN <<>>
                      ELSE <<Pair(<<"p", "r", "o", "p", "s", " ", "(", "J", "S", "O", "N", ")">>, VStr(r.json))>>)
    IN  [sku |-> r.sku, name |-> r.name, json |-> r.json,
         dict |-> IF r.json = Missing THEN base
                  ELSE DictSet(base, <<"p", "r", "o", "p", "s">>,
                               IF parsed.ok THEN parsed.val ELSE VMap(<<>>))]

_parse_products(df) ==
    IF NoRows(df) THEN <<>> ELSE [i \in 1..Len(df.rows) |-> ParseProduct(df.rows[i])]

\* parse_date: "d<n>" stands for a text that fromisoformat or strptime reads
\* as day n; anything else is None
parse_date(cell) ==
    IF Len(cell) = 2 /\ cell[1] = "d" /\ cell[2] \in Digits
    THEN [ok |-> TRUE, day |-> DigitVal(cell[2])]
    ELSE [ok |-> FALSE, day |-> 0]

\* lines 117-121: the promotion dict with its one_line
PromoDict(r) ==
    LET title == Strip(Get(r, "title", <<>>))
        short == Strip(Get(r, "short", <<>>))
        cols  == <<"start", "end", "title", "short">>
        keys  == [start |-> <<"s", "t", "a", "r", "t">>, end |-> <<"e", "n", "d">>,
                  title |-> <<"t", "i", "t", "l", "e">>, short |-> <<"s", "h", "o", "r", "t">>]
        cells == SelectSeq(cols, LAMBDA c : r[c] # Missing)
    IN  [i \in 1..Len(cells) |-> Pair(keys[cells[i]], VStr(r[cells[i]]))]
        \o <<Pair(<<"o", "n", "e", "_", "l", "i", "n", "e">>,
                  VStr(IF title # <<>> \/ short # <<>>
                       THEN title \o <<" ", "-", " ">> \o short ELSE <<>>))>>

\* lines 110-122: the first row that is active today, as [found, dict]
RECURSIVE FirstActive(_, _)
FirstActive(rows, day) ==
    IF rows = <<>> THEN [found |-> FALSE, dict |-> <<>>]
    ELSE LET start == parse_date(Get(Head(rows), "start", <<>>))
             end   == parse_date(Get(Head(rows), "end", <<>>))
         IN  IF ~(start.ok /\ day < start.day) /\ ~(end.ok /\ day > end.day)
             THEN [found |-> TRUE, dict |-> PromoDict(Head(rows))]
             ELSE FirstActive(Tail(rows), day)

_active_promo(df, day) ==
    IF NoRows(df) THEN [found |-> FALSE, dict |-> <<>>] ELSE FirstActive(df.rows, day)

\* lines 159-161
_list_products_top3(ps) ==
    LET top   == SubSeq(ps, 1, IF Len(ps) < 3 THEN Len(ps) ELSE 3)
        names == [i \in 1..Len(top) |-> Get(top[i], "name", <<>>)]
    IN  JoinComma(SelectSeq(names, LAMBDA n : n # <<>>))

\* lines 163-172; prod is the picked product's dict, pro the promotion's
build_context(config, prod, pro, ps) ==
    LET c1 == DictSet(config, <<"p", "r", "o", "d", "u", "c", "t">>, VMap(prod))
        c2 == DictSet(c1, <<"p", "r", "o", "m", "o">>, VMap(pro))
    IN  VMap(DictSet(c2, <<"l", "i", "s", "t", "_", "p", "r", "o", "d", "u", "c", "t", "s", "_", "t", "o", "p", "3">>,
                     VStr(_list_products_top3(ps))))

\* _polish without its try/except: the failure of the call reaches the caller
_polish_NoExcept(msg, persona, h) ==
    IF ~h.enabled THEN [err |-> FALSE, out |-> msg]
    ELSE IF h.outcome = "ok" THEN [err |-> FALSE, out |-> Strip(h.content)]
    ELSE [err |-> TRUE, out |-> <<>>]

\* lines 141-157. h is the hook: whether it is configured (OPENAI_ENABLED and
\* _client) and how the remote call ends: "ok" with a content, "raise" (timeout
\* or remote error), "none" (a reply whose content is None) or "nochoices"
_polish(msg, persona, h) ==
    IF ~h.enabled THEN [err |-> FALSE, out |-> msg]
    ELSE IF h.outcome = "ok" THEN [err |-> FALSE, out |-> Strip(h.content)]
    ELSE [err |-> FALSE, out |-> msg]

\* line 187 without .strip()
TemplateOf_NoStrip(row, config) ==
    LET own == Get(row, "tmpl", <<>>)
    IN  IF own # <<>> THEN own
        ELSE DictGet(config, FallbackKey, VStr(DefaultApology)).s

\* line 187
TemplateOf(row, config) ==
    LET own == Strip(Get(row, "tmpl", <<>>))
    IN  IF own # <<>> THEN own
        ELSE DictGet(config, FallbackKey, VStr(DefaultApology)).s

\* tables.get(name)
TableGet(tbls, name) == tbls[name]

(***************************************************************************)
(* sheets.py: SheetsDB, and handle_message of app/main.py                  *)
(*                                                                         *)
(* A dict built by load is an object of `heap`; it maps each sheet name to *)
(* the number of the load that read the sheet, 0 while the name is absent. *)
(***************************************************************************)
refresh_secs == 300

\* the ten sheet names of SHEET_NAMES, in ASCII
SHEET_NAMES ==
    <<"products", "persona", "faq", "before", "after",
      "training", "config", "promos", "payment", "orders">>

SheetSet == { SHEET_NAMES[i] : i \in 1..Len(SHEET_NAMES) }

\* the tables.get calls of render_reply, lines 176-181
RenderReads == <<"config", "before", "after", "products", "promos", "persona">>

EmptyDict == [n \in SheetSet |-> 0]

\* bool(self.cache)
NonEmpty(obj) == \E n \in SheetSet : obj[n] # 0

\* load with `loaded = self.cache` in place of `loaded = {}`: the reload
\* writes into the dict that earlier calls returned
NewLoaded_InPlace(hp, c) == [heap |-> hp, ref |-> c]

\* line 56: loaded = {}
NewLoaded(hp, c) == [heap |-> Append(hp, EmptyDict), ref |-> Len(hp) + 1]

Handlers == {"h1", "h2"}

IdleHandler ==
    [pc |-> "idle", op |-> "handle", force |-> FALSE, name |-> "config",
     lnow |-> 0, lid |-> 0, loaded |-> 0, k |-> 1, tables |-> 0,
     reads |-> [n \in SheetSet |-> 0], r |-> 1,
     stale |-> FALSE, nonempty |-> FALSE, reloaded |-> FALSE, got |-> 0]

\* where an access continues once load has returned
AfterLoad(op) ==
    CASE op = "handle" -> "render"
      [] op = "get" -> "get_return"
      [] OTHER -> "returned"

OtherVars == <<pc, text, IntentVars, RuleVars, PickVars, RenderVars, ReplyVars>>

\* an access begins: handle_message (db.load() and render_reply), a call of
\* load(force), or a call of get(name)
Begin(h) ==
    /\ hs[h].pc = "idle"
    /\ started < MaxRequests
    /\ started' = started + 1
    /\ \E op \in {"handle", "load", "get"} : \E force \in BOOLEAN :
          /\ force => op = "load"
          /\ hs' = [hs EXCEPT ![h] = [IdleHandler EXCEPT
                        !.op = op, !.force = force,
                        !.pc = IF op = "get" THEN "get_check" ELSE "load_now"]]
    /\ UNCHANGED <<now, last_load, cache, heap, loads, OtherVars>>

\* line 52
LoadNow(h) ==
    /\ hs[h].pc = "load_now"
    /\ hs' = [hs EXCEPT ![h].lnow = now, ![h].pc = "load_check"]
    /\ UNCHANGED <<now, last_load, cache, heap, loads, started, OtherVars>>

\* lines 53-54
LoadCheck(h) ==
    /\ hs[h].pc = "load_check"
    /\ LET fresh == hs[h].lnow - last_load < refresh_secs
           keep  == fresh /\ ~hs[h].force /\ NonEmpty(heap[cache])
       IN  hs' = [hs EXCEPT
                    ![h].stale = ~fresh,
                    ![h].nonempty = NonEmpty(heap[cache]),
                    ![h].tables = IF keep THEN cache ELSE 0,
                    ![h].pc = IF keep THEN AfterLoad(hs[h].op) ELSE "load_begin"]
    /\ UNCHANGED <<now, last_load, cache, heap, loads, started, OtherVars>>

\* lines 55-56: _connect() and loaded = {}
LoadBegin(h) ==
    /\ hs[h].pc = "load_begin"
    /\ loads' = loads + 1
    /\ heap' = NewLoaded(heap, cache).heap
    /\ hs' = [hs EXCEPT ![h].lid = loads', ![h].loaded = NewLoaded(heap, cache).ref,
                         ![h].k = 1, ![h].pc = "load_read"]
    /\ UNCHANGED <<now, last_load, cache, started, OtherVars>>

\* line 55 raising (no network, no such spreadsheet) inside handle_message
LoadFails(h) ==
    /\ hs[h].pc = "load_begin" /\ hs[h].op = "handle"
    /\ hs' = [hs EXCEPT ![h].pc = "failed"]
    /\ UNCHANGED <<now, last_load, cache, heap, loads, started, OtherVars>>

\* lines 57-58, one sheet
LoadRead(h) ==
    /\ hs[h].pc = "load_read"
    /\ heap' = [heap EXCEPT ![hs[h].loaded][SHEET_NAMES[hs[h].k]] = hs[h].lid]
    /\ hs' = [hs EXCEPT ![h].k = @ + 1,
                         ![h].pc = IF hs[h].k = Len(SHEET_NAMES) THEN "load_assign" ELSE "load_read"]
    /\ UNCHANGED <<now, last_load, cache, loads, started, OtherVars>>

\* line 59
LoadAssign(h) ==
    /\ hs[h].pc = "load_assign"
    /\ cache' = hs[h].loaded
    /\ hs' = [hs EXCEPT ![h].reloaded = TRUE, ![h].pc = "load_stamp"]
    /\ UNCHANGED <<now, last_load, heap, loads, started, OtherVars>>

\* line 60
LoadStamp(h) ==
    /\ hs[h].pc = "load_stamp"
    /\ last_load' = hs[h].lnow
    /\ hs' = [hs EXCEPT ![h].pc = "load_return"]
    /\ UNCHANGED <<now, cache, heap, loads, started, OtherVars>>

\* line 61
LoadReturn(h) ==
    /\ hs[h].pc = "load_return"
    /\ hs' = [hs EXCEPT ![h].tables = cache, ![h].pc = AfterLoad(hs[h].op)]
    /\ UNCHANGED <<now, last_load, cache, heap, loads, started, OtherVars>>

\* lines 64-65 of get
GetCheck(h) ==
    /\ hs[h].pc = "get_check"
    /\ hs' = [hs EXCEPT
                 ![h].stale = now - last_load >= refresh_secs,
                 ![h].nonempty = NonEmpty(heap[cache]),
                 ![h].pc = IF NonEmpty(heap[cache]) THEN "get_return" ELSE "load_now"]
    /\ UNCHANGED <<now, last_load, cache, heap, loads, started, OtherVars>>

\* line 66 of get
GetReturn(h) ==
    /\ hs[h].pc = "get_return"
    /\ hs' = [hs EXCEPT ![h].got = heap[cache][hs[h].name], ![h].pc = "returned"]
    /\ UNCHANGED <<now, last_load, cache, heap, loads, started, OtherVars>>

\* main.py lines 176-181: one tables.get of render_reply
RenderRead(h) ==
    /\ hs[h].pc = "render"
    /\ hs' = [hs EXCEPT
                 ![h].reads[RenderReads[hs[h].r]] = heap[hs[h].tables][RenderReads[hs[h].r]],
                 ![h].r = @ + 1,
                 ![h].pc = IF hs[h].r = Len(RenderReads) THEN "reply" ELSE "render"]
    /\ UNCHANGED <<now, last_load, cache, heap, loads, started, OtherVars>>

\* main.py lines 183-196 and 215: the reply is computed and sent
SendReply(h) ==
    /\ hs[h].pc = "reply"
    /\ hs' = [hs EXCEPT ![h].pc = "replied"]
    /\ UNCHANGED <<now, last_load, cache, heap, loads, started, OtherVars>>

\* main.py lines 218-223: the apology after an exception
SendApology(h) ==
    /\ hs[h].pc = "failed"
    /\ hs' = [hs EXCEPT ![h].pc = "replied"]
    /\ UNCHANGED <<now, last_load, cache, heap, loads, started, OtherVars>>

\* the access is over; the handler is free for the next one
Finish(h) ==
    /\ hs[h].pc \in {"returned", "replied"}
    /\ hs' = [hs EXCEPT ![h].pc = "idle"]
    /\ UNCHANGED <<now, last_load, cache, heap, loads, started, OtherVars>>

\* time passes
Tick ==
    /\ now < refresh_secs + MaxTicks * TickSecs
    /\ now' = now + TickSecs
    /\ UNCHANGED <<last_load, cache, heap, loads, started, hs, OtherVars>>

(***************************************************************************)
(* Inputs of the intent matcher                                            *)
(***************************************************************************)
\* rule cells: "always", " always" (leading blank), "keyword_any:a", "x"
RulePool ==
    { AlwaysPrefix, <<" ">> \o AlwaysPrefix, KeywordPrefix \o <<"a">>, <<"x">> }

\* priority cells: "1", "2", " 2", "" and the non-numeric "x"
PrioPool == { <<"1">>, <<"2">>, <<" ", "2">>, <<>>, <<"x">> }

\* template cells, which also tell equal rows apart
TmplPool == { <<"p">>, <<"q">> }

RowPool == [rule : RulePool, prio : PrioPool \cup {Missing}, tmpl : TmplPool]

\* a column is a column of the whole table
ColumnsAgree(rows) ==
    \A col \in IF rows = <<>> THEN {} ELSE DOMAIN rows[1] :
        \/ \A i \in 1..Len(rows) : rows[i][col] = Missing
        \/ \A i \in 1..Len(rows) : rows[i][col] # Missing

DF(rows) == [isNone |-> FALSE, rows |-> rows]
NoneDF == [isNone |-> TRUE, rows |-> <<>>]

IntentTexts == { <<"A">>, <<"h", "i">> }

NoIntent == [err |-> FALSE, which |-> "none", row |-> EmptyRow]

IntentIdle == df_before = NoneDF /\ df_after = NoneDF /\ intent = NoIntent
RuleIdle == rule_cell = <<>> /\ matched = FALSE
PickIdle == products = <<>> /\ product = [sku |-> Missing, name |-> Missing]
RenderIdle == template = <<>> /\ ctx = VMap(<<>>) /\ rendered = [err |-> FALSE, out |-> <<>>]
NoHook == [enabled |-> FALSE, outcome |-> "ok", content |-> <<>>]
NoPromo == [found |-> FALSE, dict |-> <<>>]
NoReply == [err |-> FALSE, out |-> <<>>]
ReplyIdle ==
    /\ tables = <<>> /\ today = 0 /\ hook = NoHook
    /\ kv = <<>> /\ promo = NoPromo /\ reply = NoReply
CacheIdle ==
    /\ now = 0 /\ last_load = 0 /\ cache = 1 /\ heap = <<>>
    /\ loads = 0 /\ started = 0 /\ hs = <<>>

InitIntent ==
    /\ pc = "call"
    /\ text \in IntentTexts
    /\ \E n \in 0..MaxRows : \E all \in [1..n -> RowPool] : \E k \in 0..n :
          /\ df_before = DF(SubSeq(all, 1, k))
          /\ df_after = DF(SubSeq(all, k + 1, n))
          /\ ColumnsAgree(df_before.rows)
          /\ ColumnsAgree(df_after.rows)
    /\ intent = NoIntent
    /\ RuleIdle /\ PickIdle /\ RenderIdle /\ ReplyIdle /\ CacheIdle

\* one call of choose_intent(text, df_before, df_after)
ChooseIntent ==
    /\ pc = "call"
    /\ intent' = choose_intent(text, df_before, df_after)
    /\ pc' = "done"
    /\ UNCHANGED <<text, df_before, df_after, RuleVars, PickVars, RenderVars, ReplyVars, CacheVars>>

NextIntent == ChooseIntent

SpecIntent == InitIntent /\ [][NextIntent]_vars

(***************************************************************************)
(* Properties of the intent matcher                                        *)
(***************************************************************************)
TableAt(ti) == IF ti = 1 THEN df_before ELSE df_after
TagAt(ti) == IF ti = 1 THEN "before" ELSE "after"
Positions == { p \in {1, 2} \X (1..MaxRows) : p[2] <= Len(TableAt(p[1]).rows) }
RowAt(p) == TableAt(p[1]).rows[p[2]]
MatchingPos == { p \in Positions : RowMatches(text, RowAt(p)) }
AlwaysPos ==
    { p \in Positions : parse_detection_rule(Get(RowAt(p), "rule", <<>>)).type = "always" }

\* the priority the specification gives a row: the integer in its priority
\* cell, 999 when the cell is missing, empty or not an integer
ClaimedPriority(r) ==
    IF r.prio = Missing \/ r.prio = <<>> \/ ~ParseInt(r.prio).ok
    THEN 999
    ELSE ParseInt(r.prio).val

PriorityCellsParse == \A p \in Positions : RowPriority(RowAt(p)).ok

\* p comes before q under (priority, tableIndex, rowIndex)
Before(p, q) ==
    LET pp == ClaimedPriority(RowAt(p))
        pq == ClaimedPriority(RowAt(q))
    IN  \/ pp < pq
        \/ pp = pq /\ p[1] < q[1]
        \/ pp = pq /\ p[1] = q[1] /\ p[2] < q[2]

BestPos == CHOOSE p \in MatchingPos : \A q \in MatchingPos \ {p} : Before(p, q)

Returned(p) == [err |-> FALSE, which |-> TagAt(p[1]), row |-> RowAt(p)]
FallbackResult == [err |-> FALSE, which |-> "fallback", row |-> EmptyRow]

\* choose_intent without lines 53-60
FirstPassOnly(t, b, a) ==
    LET fp == FirstPass(t, b, a)
    IN  IF fp.err THEN ErrorResult
        ELSE IF fp.cands # <<>> THEN PickFirst(fp.cands)
        ELSE FallbackResult

\* C1: every row's priority is the integer of its priority cell, 999 when
\* the cell is missing, empty or unparseable, and no priority cell makes
\* choose_intent end in an error.
C1_PriorityDefaultsTo999 ==
    pc = "done" =>
        /\ ~intent.err
        /\ \A p \in Positions :
              RowPriority(RowAt(p)) = [ok |-> TRUE, val |-> ClaimedPriority(RowAt(p))]

\* C2: when a row matches, choose_intent returns the matching row that is
\* least under (priority, tableIndex, rowIndex).
C2_LowestPriorityThenTableThenRow ==
    (pc = "done" /\ MatchingPos # {}) => intent = Returned(BestPos)

\* The selection of C2 on tables whose priority cells all parse.
SelectionWhenPrioritiesParse ==
    (pc = "done" /\ MatchingPos # {} /\ PriorityCellsParse) => intent = Returned(BestPos)

SelectionReached ==
    /\ pc = "done" /\ PriorityCellsParse
    /\ \E p, q \in MatchingPos :
          /\ p[1] = 1 /\ q[1] = 2
          /\ ClaimedPriority(RowAt(q)) < ClaimedPriority(RowAt(p))
          /\ intent = Returned(q)

\* The rescan of lines 53-60 never finds a row the first pass left out.
RescanFindsNothingNew ==
    pc = "done" =>
        /\ intent = FirstPassOnly(text, df_before, df_after)
        /\ LET fp == FirstPass(text, df_before, df_after)
           IN  (~fp.err /\ fp.cands = <<>>) =>
                   /\ ~Rescan(df_before, df_after).found
                   /\ intent = FallbackResult

\* an always row is the only matching row and lies in the second table
OnlyAlwaysInSecond ==
    \E p \in Positions : p[1] = 2 /\ AlwaysPos = {p} /\ MatchingPos = {p}

\* C10: the rescan is a no-op (choose_intent is its first pass alone, and a
\* first pass without candidates ends in the fallback result), and an always
\* row that is the only match and lies in the second table is returned with
\* tag "after".
C10_RescanIsNoOp ==
    /\ RescanFindsNothingNew
    /\ (pc = "done" /\ OnlyAlwaysInSecond) =>
           \E p \in AlwaysPos : intent = Returned(p) /\ intent.which = "after"

AlwaysInSecondWhenPrioritiesParse ==
    (pc = "done" /\ OnlyAlwaysInSecond /\ PriorityCellsParse) =>
        \E p \in AlwaysPos : intent = Returned(p) /\ intent.which = "after"

(***************************************************************************)
(* One rule cell against one text (parse_detection_rule, match_keyword_any)*)
(***************************************************************************)
SeqsUpTo(S, n) == UNION { [1..k -> S] : k \in 0..n }

\* rule cells: an optional leading blank, a prefix (the two literals, the
\* first without its colon, the second capitalised, or none) and a tail
RuleLeads == { <<>>, <<" ">> }
RuleHeads ==
    { KeywordPrefix, AlwaysPrefix, SubSeq(KeywordPrefix, 1, 11),
      <<"A">> \o Tail(AlwaysPrefix), <<>> }
RuleTails == SeqsUpTo({"a", "B", ",", " ", "|"}, MaxTail)
RuleCells == { l \o h \o t : l \in RuleLeads, h \in RuleHeads, t \in RuleTails }

RuleTexts == SeqsUpTo({"a", "B", " "}, MaxText)

RowOfRule(r) == [rule |-> r, prio |-> Missing, tmpl |-> Missing]

InitRule ==
    /\ pc = "call"
    /\ text \in RuleTexts
    /\ rule_cell \in RuleCells
    /\ matched = FALSE
    /\ IntentIdle /\ PickIdle /\ RenderIdle /\ ReplyIdle /\ CacheIdle

\* lines 40-46 for the row whose rule cell is `rule_cell`
MatchRow ==
    /\ pc = "call"
    /\ matched' = RowMatches(text, RowOfRule(rule_cell))
    /\ pc' = "done"
    /\ UNCHANGED <<text, rule_cell, IntentVars, PickVars, RenderVars, ReplyVars, CacheVars>>

NextRule == MatchRow

SpecRule == InitRule /\ [][NextRule]_vars

\* the part of R before its first "|", trimmed
TrimmedCore(r) ==
    LET cut == { i \in 1..Len(r) : r[i] = "|" }
        n   == IF cut = {} THEN Len(r)
               ELSE (CHOOSE i \in cut : \A j \in cut : i <= j) - 1
    IN  Strip(SubSeq(r, 1, n))

\* the comma-separated tokens of s: trimmed, lower-cased, empty ones dropped
TokenSet(s) ==
    LET isSeg(i, j) ==
            /\ \A k \in i..j : s[k] # ","
            /\ (i = 1 \/ s[i - 1] = ",")
            /\ (j = Len(s) \/ s[j + 1] = ",")
        segs == { SubSeq(s, i, j) : i \in 1..Len(s), j \in 1..Len(s) }
        ends == { <<i, j>> \in (1..Len(s)) \X (1..Len(s)) : i <= j /\ isSeg(i, j) }
    IN  { Lower(Strip(SubSeq(s, e[1], e[2]))) : e \in ends } \ { <<>> }

SubstringOf(tok, t) ==
    \E i \in 1..(Len(t) + 1) : \E j \in 0..Len(t) : SubSeq(t, i, j) = tok

\* the match the specification gives rule R on text T
ClaimedMatch(r, t) ==
    LET core == TrimmedCore(r)
    IN  \/ StartsWith(core, AlwaysPrefix)
        \/ /\ StartsWith(core, KeywordPrefix)
           /\ \E tok \in TokenSet(SubSeq(core, Len(KeywordPrefix) + 1, Len(core))) :
                 SubstringOf(tok, Lower(t))

\* R cut before its first "|"
BeforePipe(r) == IF IndexOf(r, "|") = 0 THEN r ELSE SubSeq(r, 1, IndexOf(r, "|") - 1)

\* C3: a row is a match exactly when the trimmed part of its rule before the
\* first "|" starts with "always", or starts with "keyword_any:" and one of
\* its tokens is a substring of the lower-cased text; what follows the first
\* "|" does not change the outcome.
C3_MatchIffRuleApplies ==
    pc = "done" =>
        /\ matched = ClaimedMatch(rule_cell, text)
        /\ matched = RowMatches(text, RowOfRule(BeforePipe(rule_cell)))

\* a keyword rule with a suffix after "|" matched through an upper-case token
C3_KeywordWithSuffixMatched ==
    /\ pc = "done" /\ matched
    /\ StartsWith(Strip(rule_cell), KeywordPrefix)
    /\ IndexOf(rule_cell, "|") > 0
    /\ \E i \in 1..Len(BeforePipe(rule_cell)) : rule_cell[i] = "B"
    /\ ~Contains(Lower(text), <<"a">>)

(***************************************************************************)
(* Product selection                                                       *)
(***************************************************************************)
\* SKU cells: "", "A1", "b"; name cells: "c B", "a", " "
SkuPool == { <<>>, <<"A", "1">>, <<"b">> }
NamePool == { <<"c", " ", "B">>, <<"a">>, <<" ">> }
ProductPool == [sku : SkuPool \cup {Missing}, name : NamePool \cup {Missing}]

PickTexts ==
    { <<>>, <<"x", "A", "1">>, <<"a", "1">>, <<"B">>, <<"b">>, <<"c">>,
      <<"a">>, <<"z", " ", "z">>, <<"1", " ", "C">> }

InitPick ==
    /\ pc = "call"
    /\ text \in PickTexts
    /\ products \in SeqsUpTo(ProductPool, MaxProducts)
    /\ ColumnsAgree(products)
    /\ product = EmptyProduct
    /\ IntentIdle /\ RuleIdle /\ RenderIdle /\ ReplyIdle /\ CacheIdle

\* one call of _pick_product(text, products)
PickProduct ==
    /\ pc = "call"
    /\ product' = _pick_product(text, products)
    /\ pc' = "done"
    /\ UNCHANGED <<text, products, IntentVars, RuleVars, RenderVars, ReplyVars, CacheVars>>

NextPick == PickProduct

SpecPick == InitPick /\ [][NextPick]_vars

\* the maximal blank-free runs of s
WsTokens(s) ==
    { SubSeq(s, e[1], e[2]) : e \in
        { e \in (1..Len(s)) \X (1..Len(s)) :
            /\ e[1] <= e[2]
            /\ \A k \in e[1]..e[2] : ~IsSpace(s[k])
            /\ (e[1] = 1 \/ IsSpace(s[e[1] - 1]))
            /\ (e[2] = Len(s) \/ IsSpace(s[e[2] + 1])) } }

SkuHit(i) ==
    /\ products[i].sku # Missing /\ products[i].sku # <<>>
    /\ SubstringOf(Lower(products[i].sku), Lower(text))

NameHit(i) ==
    /\ products[i].name # Missing
    /\ \E tok \in WsTokens(Lower(products[i].name)) : SubstringOf(tok, Lower(text))

Least(S) == CHOOSE i \in S : \A j \in S : i <= j

SkuHits == { i \in 1..Len(products) : SkuHit(i) }
NameHits == { i \in 1..Len(products) : NameHit(i) }

\* C7: _pick_product returns the first product whose SKU is in the text,
\* else the first product with a name token in the text, else the first
\* product, else (empty list) the empty record; the result is an element of
\* the list or the empty record.
C7_PickBySkuThenNameThenFirst ==
    pc = "done" =>
        /\ product =
              IF products = <<>> THEN EmptyProduct
              ELSE IF SkuHits # {} THEN products[Least(SkuHits)]
              ELSE IF NameHits # {} THEN products[Least(NameHits)]
              ELSE products[1]
        /\ \/ product = EmptyProduct
           \/ \E i \in 1..Len(products) : product = products[i]

\* the second product was picked by SKU although the first matches by name
C7_SkuBeatsEarlierName ==
    /\ pc = "done"
    /\ Len(products) = 2 /\ NameHit(1) /\ ~SkuHit(1) /\ SkuHit(2)
    /\ product = products[2] /\ products[2] # products[1]

(***************************************************************************)
(* Template rendering                                                      *)
(***************************************************************************)
\* {"a": {"b": "x", "a": None}, "b": "y"}
CtxNested ==
    VMap(<< Pair(<<"a">>, VMap(<< Pair(<<"b">>, VStr(<<"x">>)), Pair(<<"a">>, VNone) >>)),
            Pair(<<"b">>, VStr(<<"y">>)) >>)

\* {"": "e", "a": None, "a.b": "k"}
CtxFlat ==
    VMap(<< Pair(<<>>, VStr(<<"e">>)), Pair(<<"a">>, VNone),
            Pair(<<"a", ".", "b">>, VStr(<<"k">>)) >>)

Contexts == { VMap(<<>>), CtxNested, CtxFlat }

TemplatePieces ==
    { <<"{", "{">>, <<"}", "}">>, <<"{">>, <<"}">>, <<" ">>, <<".">>, <<"a">>, <<"b">> }

RECURSIVE Flatten(_)
Flatten(ss) == IF ss = <<>> THEN <<>> ELSE Head(ss) \o Flatten(Tail(ss))

InitRender ==
    /\ pc = "call"
    /\ text = <<>>
    /\ \E ps \in SeqsUpTo(TemplatePieces, MaxPieces) : template = Flatten(ps)
    /\ ctx \in Contexts
    /\ rendered = [err |-> FALSE, out |-> <<>>]
    /\ IntentIdle /\ RuleIdle /\ PickIdle /\ ReplyIdle /\ CacheIdle

\* one call of render(template, ctx)
Render ==
    /\ pc = "call"
    /\ rendered' = render(template, ctx)
    /\ pc' = "done"
    /\ UNCHANGED <<text, template, ctx, IntentVars, RuleVars, PickVars, ReplyVars, CacheVars>>

NextRender == Render

SpecRender == InitRender /\ [][NextRender]_vars

\* the dot-separated segments of a path, empty ones included
Segments(path) ==
    LET dots == { i \in 1..Len(path) : path[i] = "." }
        n    == Cardinality(dots) + 1
        \* the position of the k-th dot; 0 and Len+1 bracket the path
        dot(k) == IF k = 0 THEN 0
                  ELSE IF k = n THEN Len(path) + 1
                  ELSE CHOOSE i \in dots : Cardinality({ d \in dots : d <= i }) = k
    IN  [k \in 1..n |-> SubSeq(path, dot(k - 1) + 1, dot(k) - 1)]

\* the text a placeholder with this path is replaced by: the string of the
\* value reached through nested mappings, "" when a segment is not a key of
\* the current value, the current value is no mapping, or the end is null
ClaimedText(context, path) ==
    LET segs == Segments(Strip(path))
        reach[n \in 0..Len(segs)] ==
            IF n = 0 THEN [ok |-> TRUE, v |-> context]
            ELSE LET prev == reach[n - 1]
                 IN  IF prev.ok /\ prev.v.k = "map"
                        /\ \E i \in 1..Len(prev.v.m) : prev.v.m[i].key = segs[n]
                     THEN [ok |-> TRUE,
                           v |-> prev.v.m[CHOOSE i \in 1..Len(prev.v.m) :
                                            prev.v.m[i].key = segs[n]].val]
                     ELSE [ok |-> FALSE, v |-> VNone]
        end == reach[Len(segs)]
    IN  IF ~end.ok \/ end.v.k = "none" THEN <<>> ELSE PyStr(end.v)

\* the placeholders of s as <<first, last>> index pairs, left to right:
\* "{{" up to the nearest "}}", the next one sought after the last
RECURSIVE Placeholders(_, _)
Placeholders(s, from) ==
    LET opens == { i \in from..(Len(s) - 3) :
                     /\ s[i] = "{" /\ s[i + 1] = "{"
                     /\ \E j \in (i + 2)..(Len(s) - 1) : s[j] = "}" /\ s[j + 1] = "}" }
        i == Least(opens)
        j == Least({ x \in (i + 2)..(Len(s) - 1) : s[x] = "}" /\ s[x + 1] = "}" })
    IN  IF opens = {} THEN <<>> ELSE <<<<i, j + 1>>>> \o Placeholders(s, j + 2)

\* s with each placeholder replaced and everything else kept
ClaimedRender(s, context) ==
    LET ph == Placeholders(s, 1)
        gap(k) == SubSeq(s, IF k = 1 THEN 1 ELSE ph[k - 1][2] + 1,
                            IF k = Len(ph) + 1 THEN Len(s) ELSE ph[k][1] - 1)
        piece[k \in 0..Len(ph)] ==
            IF k = 0 THEN <<>>
            ELSE piece[k - 1] \o gap(k)
                 \o ClaimedText(context, SubSeq(s, ph[k][1] + 2, ph[k][2] - 2))
    IN  piece[Len(ph)] \o gap(Len(ph) + 1)

ConfigDF(cols, rows) == [isNone |-> FALSE, cols |-> cols, rows |-> rows]
NoneConfig == [isNone |-> TRUE, cols |-> <<>>, rows |-> <<>>]
KeyCol == <<"k", "e", "y">>
ValCol == <<"v", "a", "l">>

\* configuration tables: absent; without rows; fallback " F " (to be
\* trimmed); fallback ""; no key column; the fallback key twice (the second
\* row wins) after a row with an empty key; only other keys; one column
\* carrying both markers
ConfigTables ==
    { NoneConfig,
      ConfigDF(<<KeyCol, ValCol>>, <<>>),
      ConfigDF(<<KeyCol, ValCol>>, << <<FallbackKey, <<" ", "F", " ">>>> >>),
      ConfigDF(<<KeyCol, ValCol>>, << <<FallbackKey, <<>>>> >>),
      ConfigDF(<<<<"i", "d">>, ValCol>>, << <<FallbackKey, <<"F">>>> >>),
      ConfigDF(<<<<"n">>, KeyCol, ValCol>>,
               << <<<<"1">>, <<" ">>, <<"E">>>>,
                  <<<<"2">>, <<" ">> \o FallbackKey, <<"G">>>>,
                  <<<<"3">>, FallbackKey, <<"H">>>> >>),
      ConfigDF(<<KeyCol, ValCol>>, << <<<<"s">>, <<"S">>>>, <<PersonaKey, <<"p">>>> >>),
      ConfigDF(<<KeyCol \o ValCol>>, << <<FallbackKey>> >>) }

\* template cells: absent, "", " ", and " t{{s}}{{product.sku}} "
ReplyTemplates ==
    { <<>>, <<" ">>,
      <<" ", "t", "{", "{", "s", "}", "}", "{", "{", "p", "r", "o", "d", "u", "c", "t", ".", "s", "k", "u", "}", "}", " ">> }

ReplyRowPool ==
    [rule : {AlwaysPrefix, <<"x">>}, prio : {<<"1">>, <<"x">>},
     tmpl : ReplyTemplates \cup {Missing}]

ProductDF(rows) == [isNone |-> FALSE, rows |-> rows]
ProductTables ==
    { NoneDF,
      ProductDF(<< [sku |-> <<"A", "1">>, name |-> <<"a">>, json |-> Missing] >>),
      ProductDF(<< [sku |-> <<"b">>, name |-> <<"c", " ", "B">>, json |-> JsonObject],
                   [sku |-> <<"A", "1">>, name |-> <<"a">>, json |-> JsonBroken] >>) }

PromoTables ==
    { NoneDF,
      DF(<< [start |-> <<"d", "3">>, end |-> <<>>, title |-> <<"N">>, short |-> <<>>],
            [start |-> <<"d", "1">>, end |-> <<"?">>, title |-> <<"T">>, short |-> <<" ", "u">>] >>) }

\* the hook: not configured; a reply " P "; a timeout or remote error; a
\* reply without content; a reply without choices
Hooks ==
    { NoHook,
      [enabled |-> TRUE, outcome |-> "ok", content |-> <<" ", "P", " ">>],
      [enabled |-> TRUE, outcome |-> "raise", content |-> <<>>],
      [enabled |-> TRUE, outcome |-> "none", content |-> <<>>],
      [enabled |-> TRUE, outcome |-> "nochoices", content |-> <<>>] }

InitReply ==
    /\ pc = "call"
    /\ text = <<"A", "1">>
    /\ today = 2
    /\ hook \in Hooks
    /\ \E n \in 0..MaxReplyRows : \E all \in [1..n -> ReplyRowPool] : \E k \in 0..n :
       \E sys \in ConfigTables : \E prod \in ProductTables : \E pro \in PromoTables :
          /\ ColumnsAgree(SubSeq(all, 1, k)) /\ ColumnsAgree(SubSeq(all, k + 1, n))
          /\ tables = [sys |-> sys,
                       before |-> IF k = 0 THEN NoneDF ELSE DF(SubSeq(all, 1, k)),
                       after |-> DF(SubSeq(all, k + 1, n)),
                       prod |-> prod, promo |-> pro]
    /\ kv = <<>> /\ promo = NoPromo /\ reply = NoReply
    /\ IntentIdle /\ RuleIdle /\ PickIdle /\ RenderIdle /\ CacheIdle

\* render_reply(text, tables) when choose_intent returns
RenderReply ==
    /\ pc = "call"
    /\ ~choose_intent(text, TableGet(tables, "before"), TableGet(tables, "after")).err
    /\ df_before' = TableGet(tables, "before")
    /\ df_after' = TableGet(tables, "after")
    /\ kv' = _kv_from_config(TableGet(tables, "sys"))
    /\ intent' = choose_intent(text, df_before', df_after')
    /\ template' = TemplateOf(intent'.row, kv')
    /\ products' = _parse_products(TableGet(tables, "prod"))
    /\ product' = _pick_product(text, products')
    /\ promo' = _active_promo(TableGet(tables, "promo"), today)
    /\ ctx' = build_context(kv', IF products' = <<>> THEN <<>> ELSE product'.dict,
                            promo'.dict, products')
    /\ rendered' = render(template', ctx')
    /\ reply' = IF rendered'.err THEN [err |-> TRUE, out |-> <<>>]
                ELSE _polish(rendered'.out, DictGet(kv', PersonaKey, VStr(DefaultPersona)).s, hook)
    /\ pc' = "done"
    /\ UNCHANGED <<text, tables, today, hook, RuleVars, CacheVars>>

\* render_reply(text, tables) when choose_intent raises (line 186)
RenderReplyRaises ==
    /\ pc = "call"
    /\ choose_intent(text, TableGet(tables, "before"), TableGet(tables, "after")).err
    /\ df_before' = TableGet(tables, "before")
    /\ df_after' = TableGet(tables, "after")
    /\ kv' = _kv_from_config(TableGet(tables, "sys"))
    /\ intent' = ErrorResult
    /\ reply' = [err |-> TRUE, out |-> <<>>]
    /\ pc' = "done"
    /\ UNCHANGED <<text, tables, today, hook, promo, RuleVars, PickVars, RenderVars, CacheVars>>

NextReply == RenderReply \/ RenderReplyRaises

SpecReply == InitReply /\ [][NextReply]_vars

\* the configuration has a fallback key: the table has rows, a key column
\* and a value column, and a row whose trimmed key cell is the fallback key
FallbackRows(df) ==
    IF df.isNone \/ df.rows = <<>> THEN {}
    ELSE LET kcs == { i \in 1..Len(df.cols) : SubstringOf(KeyMarker, df.cols[i]) }
             vcs == { i \in 1..Len(df.cols) : SubstringOf(ValMarker, df.cols[i]) }
         IN  IF kcs = {} \/ vcs = {} THEN {}
             ELSE { i \in 1..Len(df.rows) : Strip(df.rows[i][Least(kcs)]) = FallbackKey }

\* the configured fallback string, the built-in apology without one
ClaimedFallback(df) ==
    LET rs  == FallbackRows(df)
        vcs == { i \in 1..Len(df.cols) : SubstringOf(ValMarker, df.cols[i]) }
        last == CHOOSE i \in rs : \A j \in rs : j <= i
    IN  IF rs = {} THEN DefaultApology ELSE Strip(df.rows[last][Least(vcs)])

RowTemplateBlank ==
    \/ intent.which = "fallback"
    \/ intent.row.tmpl = Missing
    \/ Strip(intent.row.tmpl) = <<>>

\* C4: when no row matched, or the matched row's template cell is missing,
\* empty or blank, the template rendered is the configured fallback (the
\* built-in apology only without a fallback key); a non-blank template of a
\* matched row is never replaced by the fallback.
C4_FallbackTemplateWhenNoTemplate ==
    (pc = "done" /\ ~intent.err) =>
        /\ RowTemplateBlank => template = ClaimedFallback(tables.sys)
        /\ ~RowTemplateBlank => template = Strip(intent.row.tmpl)
        /\ rendered = render(template, ctx)

\* a matched row with a blank template cell was answered with the configured
\* fallback, which is not the built-in apology
C4_BlankTemplateGotConfiguredFallback ==
    /\ pc = "done" /\ ~intent.err
    /\ intent.which = "after" /\ intent.row.tmpl = <<" ">>
    /\ template = <<"H">> /\ rendered.out = <<"H">>

HookFails == hook.enabled /\ hook.outcome # "ok"

\* C5: without a hook, or when the hook's call fails, render_reply returns
\* exactly the rendered pre-hook text; a hook failure never reaches the
\* caller as an error.
C5_HookFailureKeepsRenderedText ==
    (pc = "done" /\ ~intent.err) =>
        /\ (~hook.enabled \/ HookFails) => (~reply.err /\ reply.out = rendered.out)
        /\ ~reply.err

\* the hook's call failed and the non-empty rendered text was returned
C5_FailedHookReached ==
    /\ pc = "done" /\ ~intent.err /\ HookFails
    /\ rendered.out # <<>> /\ reply = rendered

(***************************************************************************)
(* The sheet cache under concurrent handlers                               *)
(***************************************************************************)
\* SheetsDB.__init__: cache = {}, last_load = 0.0; the clock is past the
\* first refresh period, as every time.time() is
InitCache ==
    /\ pc = "call" /\ text = <<>>
    /\ now = refresh_secs
    /\ last_load = 0
    /\ heap = <<EmptyDict>>
    /\ cache = 1
    /\ loads = 0
    /\ started = 0
    /\ hs = [h \in Handlers |-> IdleHandler]
    /\ IntentIdle /\ RuleIdle /\ PickIdle /\ RenderIdle /\ ReplyIdle

NextCache ==
    \/ \E h \in Handlers :
          \/ Begin(h) \/ LoadNow(h) \/ LoadCheck(h) \/ LoadBegin(h) \/ LoadFails(h)
          \/ LoadRead(h) \/ LoadAssign(h) \/ LoadStamp(h) \/ LoadReturn(h)
          \/ GetCheck(h) \/ GetReturn(h) \/ RenderRead(h)
          \/ SendReply(h) \/ SendApology(h) \/ Finish(h)
    \/ Tick

SpecCache == InitCache /\ [][NextCache]_vars

\* the access of handler h has its result: load or get has returned
Accessed(h) == hs[h].pc \in {"returned", "render", "reply", "replied"} /\ hs[h].tables + hs[h].got # 0

\* the access honoured the refresh period: stale or forced, it reloaded;
\* fresh, unforced and with a non-empty cache, it did not
HonoursTTL(h) ==
    /\ (hs[h].stale \/ hs[h].force) => hs[h].reloaded
    /\ (~hs[h].stale /\ ~hs[h].force /\ hs[h].nonempty) => ~hs[h].reloaded

\* C8: every access, by load or by get, made when the time since the last
\* refresh is at least refresh_secs, or made with force, reloads before it
\* returns; a fresh, unforced access to a non-empty cache does not reload.
C8_EveryAccessHonoursTTL == \A h \in Handlers : Accessed(h) => HonoursTTL(h)

\* the same of the accesses that go through load alone
LoadHonoursTTL ==
    \A h \in Handlers : (Accessed(h) /\ hs[h].op # "get") => HonoursTTL(h)

\* no reload is running, and a get is answered from a snapshot that is a
\* full refresh period old
StaleGetAnswered ==
    \E h \in Handlers :
        /\ hs[h].op = "get" /\ hs[h].pc = "returned"
        /\ hs[h].stale /\ ~hs[h].reloaded /\ hs[h].got # 0
        /\ last_load > 0 /\ now - last_load >= refresh_secs
        /\ \A g \in Handlers \ {h} : hs[g].pc = "idle"

\* every sheet of the dict was read, and all by one load
WholeSnapshot(obj) ==
    /\ \A n \in SheetSet : obj[n] # 0
    /\ \A m, n \in SheetSet : obj[m] = obj[n]

\* the tables render_reply has read so far
ReadSoFar(h) == { RenderReads[i] : i \in 1..(hs[h].r - 1) }

\* C9: under any interleaving of handlers and reloads, the tables read in
\* one render_reply call come from one and the same snapshot: the mapping a
\* handler got from load is whole and by one load for as long as the handler
\* holds it, what the handler read of it is of that one load, and the cache
\* is the empty dict of the constructor or a whole snapshot.
C9_OneSnapshotPerRender ==
    /\ heap[cache] = EmptyDict \/ WholeSnapshot(heap[cache])
    /\ \A h \in Handlers :
          /\ hs[h].tables # 0 => WholeSnapshot(heap[hs[h].tables])
          /\ \A m, n \in ReadSoFar(h) :
                hs[h].reads[m] # 0 /\ hs[h].reads[m] = hs[h].reads[n]

\* a handler has read all its tables from one snapshot while a reload of
\* another handler, begun during the reads, has replaced the cache
C9_RenderedAcrossReload ==
    \E h \in Handlers :
        /\ hs[h].op = "handle" /\ hs[h].pc = "reply"
        /\ cache # hs[h].tables
        /\ heap[cache]["config"] > hs[h].reads["config"]

====
